---- MODULE Spec2Model ----
(***************************************************************************)
(* deploy.py: the build-and-deploy script of astrohopper.                  *)
(*                                                                         *)
(* Text is a sequence of tokens; every token is the literal piece of text  *)
(* it shows, and a text is the concatenation of its tokens.  The tokens    *)
(* are cut so that the regular expressions of embed() and the separators   *)
(* of get_ver() and embed_service_worker() never match across a token      *)
(* boundary in any other way than the token-level operators below state.   *)
(* A file is a record [kind, data]: kind "absent" (no such path), "text"   *)
(* (data: tokens), "bad" (a regular file whose bytes are not UTF-8: any    *)
(* text-mode read raises, a byte copy works), "bin" (data: bytes) or "dir".*)
(***************************************************************************)
EXTENDS Integers, Sequences, FiniteSets, TLC

VARIABLES
    pc,       \* position of main(): which call comes next, or how it ended
    fs,       \* the working directory: file name -> file
    fs0,      \* fs as it was when main() started (history)
    ver,      \* main's local ver
    man,      \* main's local man
    argv,     \* sys.argv[1:], a sequence of at most one directory name
    tdir,     \* the target directory: [exists, files, icons]
    tdir0,    \* tdir as it was when main() started (history)
    calls,    \* the functions main() has called so far, in order (history)
    attempts, \* the copies deploy_files() has attempted, in order (history)
    emitted,  \* embed(): per template line already handled, [line, frag]
    printed   \* the error messages printed so far, in order

vars == <<pc, fs, fs0, ver, man, argv, tdir, tdir0, calls, attempts, emitted, printed>>

(***************************************************************************)
(* Bounds of the model.                                                    *)
(***************************************************************************)
MaxLines == 3   \* lines of the longest templates

(***************************************************************************)
(* Files and values.                                                       *)
(***************************************************************************)
Absent == [kind |-> "absent", data |-> <<>>]
Bad == [kind |-> "bad", data |-> <<>>]
Dir == [kind |-> "dir", data |-> <<>>]
Text(s) == [kind |-> "text", data |-> s]
Bin(b) == [kind |-> "bin", data |-> b]

None == [some |-> FALSE, val |-> <<>>]
Some(s) == [some |-> TRUE, val |-> s]

\* Python's truth value of an Optional[str]: None and '' are false.
Truthy(v) == v.some /\ v.val # <<>>

Max(S) == CHOOSE x \in S : \A y \in S : y <= x
Min(S) == CHOOSE x \in S : \A y \in S : x <= y

RECURSIVE Concat(_)
Concat(ss) == IF ss = <<>> THEN <<>> ELSE Head(ss) \o Concat(Tail(ss))

\* The file a path names; a path that is no single file name names nothing.
PathOf(toks) == IF Len(toks) = 1 THEN toks[1] ELSE ""
Lookup(path) == IF path \in DOMAIN fs THEN fs[path] ELSE Absent

Whitespace == {" ", "\n"}

\* str.strip()
strip(s) ==
    LET I == {i \in 1..Len(s) : s[i] \notin Whitespace}
    IN  IF I = {} THEN <<>> ELSE SubSeq(s, Min(I), Max(I))

\* file.readline(): up to and including the first newline.
readline(s) ==
    LET I == {i \in 1..Len(s) : s[i] = "\n"}
    IN  IF I = {} THEN s ELSE SubSeq(s, 1, Min(I))

\* Iterating a text file: its lines, each with its newline.
RECURSIVE lines_of(_)
lines_of(s) ==
    IF s = <<>> THEN <<>>
    ELSE LET l == readline(s)
         IN  <<l>> \o lines_of(SubSeq(s, Len(l) + 1, Len(s)))

\* str.replace(old, new) for a one-token old: every occurrence is replaced.
RECURSIVE replace(_, _, _)
replace(s, old, new) ==
    IF s = <<>> THEN <<>>
    ELSE (IF Head(s) = old THEN new ELSE <<Head(s)>>) \o replace(Tail(s), old, new)

(***************************************************************************)
(* get_ver()                                                               *)
(***************************************************************************)
Separator == ": v"

\* Variant: what follows the first separator (split(...)[1]).
split_last_first(s) ==
    LET I == {i \in 1..Len(s) : s[i] = Separator}
    IN  IF I = {} THEN s ELSE SubSeq(s, Min(I) + 1, Len(s))

\* first.split(': v')[-1]: what follows the last separator, or all of it.
split_last(s) ==
    LET I == {i \in 1..Len(s) : s[i] = Separator}
    IN  IF I = {} THEN s ELSE SubSeq(s, Max(I) + 1, Len(s))

\* Variant: a fallback version where get_ver returns None.
get_ver_default(f) ==
    IF f.kind # "text" THEN Some(<<"0.0.0">>)
    ELSE Some(split_last(strip(readline(f.data))))

get_ver(f) ==
    IF f.kind # "text" THEN None ELSE Some(split_last(strip(readline(f.data))))

(***************************************************************************)
(* make_manual()                                                           *)
(***************************************************************************)
\* markdown.Markdown(extensions=['toc']).convert(text), for a text that is
\* one plain paragraph: the paragraph in a <p> element, no final newline.
markdown_convert(text) == <<"<p>">> \o text \o <<"</p>">>

\* Variant: the converted text is returned although a later step failed.
make_manual_keep ==
    LET readme == fs["README.md"]
        html == markdown_convert(readme.data)
        ok == /\ readme.kind = "text"
              /\ fs["header.html"].kind = "text"
              /\ fs["footer.html"].kind = "text"
    IN  [ret |-> IF readme.kind = "text" THEN html ELSE <<>>,
         manual |-> IF ok THEN Text(fs["header.html"].data \o fs["footer.html"].data \o html)
                    ELSE IF readme.kind = "text" THEN Text(<<>>) ELSE fs["manual.html"],
         err |-> ~ok]

\* [ret: the value returned, manual: manual.html afterwards, err: whether
\* the except branch ran].  manual.html is opened for writing (truncated)
\* only after README.md was read and converted; header.html and footer.html
\* are written before the converted text.
make_manual ==
    LET readme == fs["README.md"]
        header == fs["header.html"]
        footer == fs["footer.html"]
        html == markdown_convert(readme.data)
    IN  IF readme.kind # "text"
        THEN [ret |-> <<>>, manual |-> fs["manual.html"], err |-> TRUE]
        ELSE IF header.kind # "text"
        THEN [ret |-> <<>>, manual |-> Text(<<>>), err |-> TRUE]
        ELSE IF footer.kind # "text"
        THEN [ret |-> <<>>, manual |-> Text(header.data), err |-> TRUE]
        ELSE [ret |-> html, manual |-> Text(header.data \o footer.data \o html),
              err |-> FALSE]

(***************************************************************************)
(* embed_service_worker(version)                                           *)
(***************************************************************************)
\* Variant: sw_deploy.js opened before sw.js.
embed_service_worker_outfirst(version) ==
    LET sw == fs["sw.js"]
    IN  IF sw.kind # "text" THEN [out |-> Text(<<>>), err |-> TRUE]
        ELSE [out |-> Text(replace(sw.data, "VERSION", version)), err |-> FALSE]

\* [out: sw_deploy.js afterwards, err].  The with statement opens sw.js
\* first and sw_deploy.js (mode "w") second, both before sw.js is read.
embed_service_worker(version) ==
    LET sw == fs["sw.js"]
    IN  IF sw.kind = "absent" THEN [out |-> fs["sw_deploy.js"], err |-> TRUE]
        ELSE IF sw.kind # "text" THEN [out |-> Text(<<>>), err |-> TRUE]
        ELSE [out |-> Text(replace(sw.data, "VERSION", version)), err |-> FALSE]

(***************************************************************************)
(* png_encode(path)                                                        *)
(***************************************************************************)
B64Alphabet ==
    <<"A", "B", "C", "D", "E", "F", "G", "H", "I", "J", "K", "L", "M",
      "N", "O", "P", "Q", "R", "S", "T", "U", "V", "W", "X", "Y", "Z",
      "a", "b", "c", "d", "e", "f", "g", "h", "i", "j", "k", "l", "m",
      "n", "o", "p", "q", "r", "s", "t", "u", "v", "w", "x", "y", "z",
      "0", "1", "2", "3", "4", "5", "6", "7", "8", "9", "+", "/">>

B64Char(n) == B64Alphabet[n + 1]

\* base64.b64encode(png).decode(): three bytes to four characters, padded.
RECURSIVE b64encode(_)
b64encode(b) ==
    IF Len(b) = 0 THEN <<>>
    ELSE IF Len(b) = 1
    THEN <<B64Char(b[1] \div 4), B64Char((b[1] % 4) * 16), "=", "=">>
    ELSE IF Len(b) = 2
    THEN <<B64Char(b[1] \div 4), B64Char((b[1] % 4) * 16 + b[2] \div 16),
           B64Char((b[2] % 16) * 4), "=">>
    ELSE <<B64Char(b[1] \div 4), B64Char((b[1] % 4) * 16 + b[2] \div 16),
           B64Char((b[2] % 16) * 4 + b[3] \div 64), B64Char(b[3] % 64)>>
         \o b64encode(SubSeq(b, 4, Len(b)))

DataPrefix == "data:image/png;base64,"

\* [ret, err]: the data URI of the file, or '' when anything fails (the
\* function catches its own errors).  The PNG names of the model name a
\* "bin" file or nothing.
png_encode(path) ==
    LET f == Lookup(path)
    IN  IF f.kind = "bin" THEN [ret |-> <<DataPrefix>> \o b64encode(f.data), err |-> FALSE]
        ELSE [ret |-> <<>>, err |-> TRUE]

(***************************************************************************)
(* embed(manual, version)                                                  *)
(***************************************************************************)
\* A line without its newline: what "." and "$" of the patterns can span.
body_of(line) ==
    IF line # <<>> /\ line[Len(line)] = "\n" THEN SubSeq(line, 1, Len(line) - 1)
    ELSE line

NoMatch == [hit |-> FALSE, g1 |-> <<>>, g2 |-> <<>>, g3 |-> <<>>]

\* script_pattern  ^<script src="(.*)"></script>  with match(): the tag
\* opens the line; the greedy group runs to the last "></script> of the
\* line; the pattern has no "$", so what follows the tag is not looked at.
script_pattern(line) ==
    LET b == body_of(line)
        J == {j \in 3..(Len(b) - 1) : b[j] = "\"" /\ b[j + 1] = "></script>"}
    IN  IF Len(b) >= 4 /\ b[1] = "<script " /\ b[2] = "src=\"" /\ J # {}
        THEN [hit |-> TRUE, g1 |-> SubSeq(b, 3, Max(J) - 1), g2 |-> <<>>,
              g3 |-> <<>>]
        ELSE NoMatch

\* version_pattern  .*Settings \((version)\).*  with match(): the phrase
\* occurs somewhere on the line.
version_pattern(line) ==
    LET b == body_of(line)
    IN  IF \E i \in 1..(Len(b) - 2) :
               b[i] = "Settings (" /\ b[i + 1] = "version" /\ b[i + 2] = ")"
        THEN [hit |-> TRUE, g1 |-> <<>>, g2 |-> <<>>, g3 |-> <<>>]
        ELSE NoMatch

\* Tokens made only of characters of [a-z0-9_\-], and tokens that are such
\* characters followed by ".png".
ClassTokens == {"con", "version"}
PngTokens == {"bg.png", "ic.png", "no.png"}

\* b[a..z] spells  [a-z0-9_\-\/]*\.png
png_name(b, a, z) ==
    /\ a <= z /\ z <= Len(b)
    /\ b[z] \in PngTokens
    /\ \A k \in a..(z - 1) : b[k] \in ClassTokens

\* b[i] is `open`, a PNG name follows and `close` follows the name.
png_ref(b, i, open, close) ==
    /\ b[i] = open
    /\ \E z \in (i + 1)..(Len(b) - 1) : png_name(b, i + 1, z) /\ b[z + 1] = close

png_groups(b, i) ==
    LET z == CHOOSE z \in (i + 1)..(Len(b) - 1) : png_name(b, i + 1, z)
    IN  [hit |-> TRUE, g1 |-> SubSeq(b, 1, i - 1), g2 |-> SubSeq(b, i + 1, z),
         g3 |-> SubSeq(b, z + 2, Len(b))]

\* Variant: a lazy first group, matching the first reference of the line.
urlpng_pattern_first(line) ==
    LET b == body_of(line)
        I == {i \in 1..Len(b) : png_ref(b, i, "url(", ")")}
    IN  IF I = {} THEN NoMatch ELSE png_groups(b, Min(I))

\* urlpng_pattern  ^(.*)url\(([a-z0-9_\-]*\.png)\)(.*)$ : the first group
\* is greedy, so the reference matched is the last one of the line.
urlpng_pattern(line) ==
    LET b == body_of(line)
        I == {i \in 1..Len(b) : png_ref(b, i, "url(", ")")}
    IN  IF I = {} THEN NoMatch ELSE png_groups(b, Max(I))

\* urlpng2_pattern  ^(.*<img.*)src="([a-z0-9_\-\/]*\.png)"(.*)$ : the last
\* src="....png" of the line, provided an <img stands somewhere before it.
urlpng2_pattern(line) ==
    LET b == body_of(line)
        I == {i \in 1..Len(b) : png_ref(b, i, "src=\"", "\"")}
    IN  IF I # {} /\ \E k \in 1..(Max(I) - 1) : b[k] = "<img "
        THEN png_groups(b, Max(I))
        ELSE NoMatch

\* open(m.group(1), "r") and read(): a text file reads, anything else raises.
read_text(path) ==
    LET f == Lookup(path)
    IN  [ok |-> f.kind = "text", data |-> f.data]

\* The chain of if/elif over the four match results and the MANUAL test:
\* the first branch whose test holds is taken.
\* Variant: the PNG test placed before the version test.
classify_pngfirst(m, v, u, u2, manual_line) ==
    IF m.hit THEN "script"
    ELSE IF u.hit \/ u2.hit THEN "png"
    ELSE IF v.hit THEN "version"
    ELSE IF manual_line THEN "manual"
    ELSE "other"

classify(m, v, u, u2, manual_line) ==
    IF m.hit THEN "script"
    ELSE IF v.hit THEN "version"
    ELSE IF u.hit \/ u2.hit THEN "png"
    ELSE IF manual_line THEN "manual"
    ELSE "other"

\* The three writes of the script branch.
\* Variant: a newline written after the content.
write_script_newline(inline_content) ==
    <<"<script>", "\n">> \o inline_content \o <<"\n", "</script>", "\n">>

write_script(inline_content) ==
    <<"<script>", "\n">> \o inline_content \o <<"</script>", "\n">>

\* Variant: only whole words replaced.
RECURSIVE replace_words(_, _)
replace_words(line, version) ==
    IF line = <<>> THEN <<>>
    ELSE IF Len(line) >= 2 /\ line[1] \in ClassTokens /\ line[2] = "version"
    THEN <<line[1], line[2]>> \o replace_words(SubSeq(line, 3, Len(line)), version)
    ELSE (IF Head(line) = "version" THEN version ELSE <<Head(line)>>)
         \o replace_words(Tail(line), version)

\* line.replace('version', version)
replace_version(line, version) == replace(line, "version", version)

\* pat % (match.group(1), b64png, match.group(3)), u deciding the pattern.
new_line(u, u2, b64png) ==
    LET match == IF u.hit THEN u ELSE u2
    IN  IF u.hit
        THEN match.g1 \o <<"url(">> \o b64png \o <<")">> \o match.g3 \o <<"\n">>
        ELSE match.g1 \o <<"src=\"">> \o b64png \o <<"\"">> \o match.g3 \o <<"\n">>

\* The body of the for loop for one line: [ok: no exception left the
\* body, frag: what the body wrote to out, msgs: what it printed].
embed_line(line, manual, version) ==
    LET m == script_pattern(line)
        v == version_pattern(line)
        u == urlpng_pattern(line)
        u2 == urlpng2_pattern(line)
        branch == classify(m, v, u, u2, strip(line) = <<"MANUAL">>)
        inline == read_text(PathOf(m.g1))
        b64png == png_encode(PathOf((IF u.hit THEN u ELSE u2).g2))
    IN  CASE branch = "script" ->
               IF inline.ok
               THEN [ok |-> TRUE, frag |-> write_script(inline.data), msgs |-> <<>>]
               ELSE [ok |-> FALSE, frag |-> <<>>, msgs |-> <<>>]
          [] branch = "version" ->
               [ok |-> TRUE, frag |-> replace_version(line, version), msgs |-> <<>>]
          [] branch = "png" ->
               [ok |-> TRUE, frag |-> new_line(u, u2, b64png.ret),
                msgs |-> IF b64png.err THEN <<"Error encoding PNG">> ELSE <<>>]
          [] branch = "manual" ->
               [ok |-> TRUE, frag |-> manual, msgs |-> <<>>]
          [] OTHER ->
               [ok |-> TRUE, frag |-> line, msgs |-> <<>>]

\* The for loop over the lines: [ok, written: <<[line, frag]>> for the
\* lines whose body completed, msgs].  The first line whose body raises
\* ends the loop.
RECURSIVE embed_lines(_, _, _)
\* Variant: a failing line is skipped and the loop goes on.
embed_lines_skip(lines, manual, version) ==
    IF lines = <<>> THEN [ok |-> TRUE, written |-> <<>>, msgs |-> <<>>]
    ELSE LET r == embed_line(Head(lines), manual, version)
             rest == embed_lines(Tail(lines), manual, version)
         IN  IF ~r.ok THEN [ok |-> FALSE, written |-> rest.written, msgs |-> r.msgs \o rest.msgs]
             ELSE [ok |-> rest.ok,
                   written |-> <<[line |-> Head(lines), frag |-> r.frag]>> \o rest.written,
                   msgs |-> r.msgs \o rest.msgs]

embed_lines(lines, manual, version) ==
    IF lines = <<>> THEN [ok |-> TRUE, written |-> <<>>, msgs |-> <<>>]
    ELSE LET r == embed_line(Head(lines), manual, version)
             rest == embed_lines(Tail(lines), manual, version)
         IN  IF ~r.ok THEN [ok |-> FALSE, written |-> <<>>, msgs |-> r.msgs]
             ELSE [ok |-> rest.ok,
                   written |-> <<[line |-> Head(lines), frag |-> r.frag]>> \o rest.written,
                   msgs |-> r.msgs \o rest.msgs]

Frags(written) == Concat([k \in 1..Len(written) |-> written[k].frag])

\* [out: astrohopper_deploy.html afterwards, written, msgs, err].  The
\* template is opened first; the output is opened (truncated) only then.
embed(manual, version) ==
    LET t == fs["astrohopper.html"]
        r == embed_lines(lines_of(t.data), manual, version)
    IN  IF t.kind = "absent"
        THEN [out |-> fs["astrohopper_deploy.html"], written |-> <<>>,
              msgs |-> <<>>, err |-> TRUE]
        ELSE IF t.kind # "text"
        THEN [out |-> Text(<<>>), written |-> <<>>, msgs |-> <<>>, err |-> TRUE]
        ELSE [out |-> Text(Frags(r.written)), written |-> r.written,
              msgs |-> r.msgs, err |-> ~r.ok]

(***************************************************************************)
(* copyf, copytree, deploy_files(target)                                   *)
(***************************************************************************)
files_to_copy ==
    <<"astrohopper_deploy.html", "sw_deploy.js", "LICENSE", "COPYING.md",
      "manual.html", "manifest.json">>

CopyNames == {files_to_copy[k] : k \in 1..Len(files_to_copy)}

\* A regular file, whatever its bytes: shutil.copyfile copies it.
IsFile(f) == f.kind \in {"text", "bad", "bin"}

\* copyf(src, tgt) into the target directory d: [d, msgs].  A source that
\* is missing raises FileNotFoundError, which copyf catches; any other
\* failure is caught by the caller's except.  Both print "Error copying".
copyf(src, d) ==
    IF IsFile(fs[src])
    THEN [d |-> [d EXCEPT !.files[src] = fs[src]], msgs |-> <<>>]
    ELSE [d |-> d, msgs |-> <<"Error copying " \o src>>]

\* copytree('icons', target/icons): [d, msgs].
copytree(d) ==
    IF fs["icons"].kind # "dir"
    THEN [d |-> d, msgs |-> <<"Error copying directory icons">>]
    ELSE IF d.icons.kind # "absent"
    THEN [d |-> d, msgs |-> <<"Directory icons already exists">>]
    ELSE [d |-> [d EXCEPT !.icons = fs["icons"]], msgs |-> <<>>]

\* The for loop over files_to_copy from index k on, then the icons copy:
\* [d, attempted, msgs].
RECURSIVE copy_all(_, _)
\* Variant: the first failing copy ends the deployment.
copy_all_stop(k, d) ==
    IF k > Len(files_to_copy)
    THEN LET t == copytree(d)
         IN  [d |-> t.d, attempted |-> <<"icons">>, msgs |-> t.msgs]
    ELSE LET c == copyf(files_to_copy[k], d)
             rest == copy_all(k + 1, c.d)
         IN  IF c.msgs # <<>>
             THEN [d |-> c.d, attempted |-> <<files_to_copy[k]>>, msgs |-> c.msgs]
             ELSE [d |-> rest.d, attempted |-> <<files_to_copy[k]>> \o rest.attempted,
                   msgs |-> c.msgs \o rest.msgs]

copy_all(k, d) ==
    IF k > Len(files_to_copy)
    THEN LET t == copytree(d)
         IN  [d |-> t.d, attempted |-> <<"icons">>, msgs |-> t.msgs]
    ELSE LET c == copyf(files_to_copy[k], d)
             rest == copy_all(k + 1, c.d)
         IN  [d |-> rest.d, attempted |-> <<files_to_copy[k]>> \o rest.attempted,
              msgs |-> c.msgs \o rest.msgs]

\* os.makedirs(target) succeeds for a path that can name a directory; for
\* the empty path it raises FileNotFoundError.
makedirs_ok(target) == target # ""

\* [raised: an exception left deploy_files, d, attempted, msgs].  The
\* directory test and os.makedirs stand outside every try block.
deploy_files(target) ==
    LET made == [tdir EXCEPT !.exists = TRUE]
        r == copy_all(1, made)
    IN  IF ~tdir.exists /\ ~makedirs_ok(target)
        THEN [raised |-> TRUE, d |-> tdir, attempted |-> <<>>, msgs |-> <<>>]
        ELSE [raised |-> FALSE, d |-> r.d, attempted |-> r.attempted, msgs |-> r.msgs]

(***************************************************************************)
(* main()                                                                  *)
(***************************************************************************)
DefaultTarget == "_deploy"
target_dir == IF Len(argv) > 0 THEN argv[1] ELSE DefaultTarget

\* create_db(), imported from create_data: an opaque collaborator that
\* touches none of the files modelled here.
CreateDb ==
    /\ pc = "create_db"
    /\ pc' = "get_ver"
    /\ calls' = Append(calls, "create_db")
    /\ UNCHANGED <<fs, fs0, tdir0, ver, man, argv, tdir, attempts, emitted, printed>>

GetVer ==
    /\ pc = "get_ver"
    /\ ver' = get_ver(fs["Changelog.md"])
    /\ pc' = "if_not_ver"
    /\ calls' = Append(calls, "get_ver")
    /\ printed' = IF ver'.some THEN printed ELSE Append(printed, "Error reading version")
    /\ UNCHANGED <<fs, fs0, tdir0, man, argv, tdir, attempts, emitted>>

\* if not ver: print(...); return
Halt ==
    /\ pc = "if_not_ver"
    /\ ~Truthy(ver)
    /\ pc' = "returned_early"
    /\ printed' = Append(printed, "Version could not be determined.")
    /\ UNCHANGED <<fs, fs0, tdir0, ver, man, argv, tdir, calls, attempts, emitted>>

MakeManual ==
    /\ pc = "if_not_ver"
    /\ Truthy(ver)
    /\ LET r == make_manual
       IN  /\ man' = r.ret
           /\ fs' = [fs EXCEPT !["manual.html"] = r.manual]
           /\ printed' = IF r.err THEN Append(printed, "Error creating manual") ELSE printed
    /\ pc' = "embed"
    /\ calls' = Append(calls, "make_manual")
    /\ UNCHANGED <<fs0, tdir0, ver, argv, tdir, attempts, emitted>>

Embed ==
    /\ pc = "embed"
    /\ LET r == embed(man, ver.val)
       IN  /\ fs' = [fs EXCEPT !["astrohopper_deploy.html"] = r.out]
           /\ emitted' = r.written
           /\ printed' = printed \o r.msgs
                         \o (IF r.err THEN <<"Error embedding">> ELSE <<>>)
    /\ pc' = "embed_service_worker"
    /\ calls' = Append(calls, "embed")
    /\ UNCHANGED <<fs0, tdir0, ver, man, argv, tdir, attempts>>

EmbedServiceWorker ==
    /\ pc = "embed_service_worker"
    /\ LET r == embed_service_worker(ver.val)
       IN  /\ fs' = [fs EXCEPT !["sw_deploy.js"] = r.out]
           /\ printed' = IF r.err THEN Append(printed, "Error embedding service worker")
                         ELSE printed
    /\ pc' = "deploy_files"
    /\ calls' = Append(calls, "embed_service_worker")
    /\ UNCHANGED <<fs0, tdir0, ver, man, argv, tdir, attempts, emitted>>

DeployFiles ==
    /\ pc = "deploy_files"
    /\ LET r == deploy_files(target_dir)
       IN  /\ tdir' = r.d
           /\ attempts' = r.attempted
           /\ printed' = printed \o r.msgs
           /\ pc' = IF r.raised THEN "raised" ELSE "returned"
    /\ calls' = Append(calls, "deploy_files")
    /\ UNCHANGED <<fs, fs0, tdir0, ver, man, argv, emitted>>

Next ==
    \/ CreateDb
    \/ GetVer
    \/ Halt
    \/ MakeManual
    \/ Embed
    \/ EmbedServiceWorker
    \/ DeployFiles

(***************************************************************************)
(* The states main() can start in.                                         *)
(***************************************************************************)
GoodChangelog == Text(<<"Release notes", ": v", "2.3.1", "\n", "First release.", "\n">>)

ChangelogFiles ==
    { Absent, Bad, GoodChangelog,
      Text(<<>>),
      Text(<<"\n", "Release notes", ": v", "2.3.1", "\n">>),
      Text(<<"Release notes", ": v", "2.3.1">>),
      Text(<<" ", "Release notes", ": v", "2.3.1", " ", "\n">>),
      Text(<<"Release notes", " ", "2.3.1", "\n">>),
      Text(<<"# Changelog", "\n", "Release notes", ": v", "2.3.1", "\n">>),
      Text(<<"Release notes", ": v", "\n">>),
      Text(<<"Release notes", ": v", " ", "\n">>),
      Text(<<"1.0", ": v", "1.0", ": v", "2.3.1", "\n">>),
      Text(<<"Release notes", ": v", "2.3.1", "-", "beta", "\n">>) }

Script(name) == <<"<script ", "src=\"", name, "\"", "></script>">>
Url(name) == <<"url(", name, ")">>
Img(name) == <<"<img ", "src=\"", name, "\"", ">">>
Phrase == <<"Settings (", "version", ")">>

\* Template lines, without their newline.
LineSet ==
    { <<>>, <<"x;">>, <<"con", "version">>, <<"<img ", ">">>,
      Script("app.js"), Script("lib.js"), Script("missing.js"),
      Script("app.js") \o <<"x;">>,
      <<" ">> \o Script("app.js"),
      Script("app.js") \o Script("lib.js"),
      Script("app.js") \o Phrase,
      <<"<script ", "src=\"", "\"", "></script>">>,
      Phrase,
      <<"x;">> \o Phrase \o <<" ", "con", "version">>,
      <<"version", " ">> \o Phrase,
      Phrase \o Url("bg.png"),
      <<"Settings (", "x;", ")">>,
      <<"x;">> \o Url("bg.png") \o <<"x;">>,
      Url("bg.png") \o <<" ">> \o Url("ic.png"),
      Url("no.png"),
      Url("bg.png") \o Url("no.png"),
      Img("ic.png") \o Url("bg.png"),
      <<"url(", "con", "bg.png", ")">>,
      <<"url(", "x;", ")">>,
      Url("bg.png") \o <<"MANUAL">>,
      Img("bg.png"),
      <<"x;">> \o Img("bg.png") \o Img("ic.png"),
      Img("no.png"),
      <<"src=\"", "bg.png", "\"">>,
      <<"x;", "<img ", ">">> \o Script("bg.png"),
      <<"MANUAL">>, <<" ", "MANUAL", " ">>, <<"MANUAL", "x;">> }

\* The lines the templates of several lines are made of.
CoreLines ==
    { <<"x;">>, <<"con", "version">>, <<"MANUAL">>,
      Script("app.js") \o <<"x;">>, Script("missing.js"),
      Phrase \o Url("bg.png"),
      Url("no.png"), Url("bg.png") \o <<" ">> \o Url("ic.png") }

RECURSIVE TemplateBodies(_, _)
TemplateBodies(n, L) ==
    IF n = 0 THEN {<<>>}
    ELSE {<<l>> \o t : l \in L, t \in TemplateBodies(n - 1, L)}

\* A template of these lines; the last line may lack its newline.
TemplateOf(ls, nl) ==
    Text(Concat([k \in 1..Len(ls) |->
                    ls[k] \o (IF k < Len(ls) \/ nl THEN <<"\n">> ELSE <<>>)]))

\* Every template of one line of LineSet, and every template of 2..MaxLines
\* lines of CoreLines.
Templates ==
    {TemplateOf(ls, nl) : ls \in TemplateBodies(1, LineSet), nl \in BOOLEAN}
    \cup UNION { {TemplateOf(ls, nl) : ls \in TemplateBodies(n, CoreLines), nl \in BOOLEAN}
                 : n \in 2..MaxLines }

BaseTemplate ==
    Text(<<"<html>", "\n">> \o Script("app.js") \o <<"\n">>
         \o <<"<h1>">> \o Phrase \o <<"</h1>", "\n">>
         \o Url("bg.png") \o <<"\n", "MANUAL", "\n", "</html>", "\n">>)

FileNames ==
    { "Changelog.md", "README.md", "header.html", "footer.html", "manual.html",
      "sw.js", "sw_deploy.js", "astrohopper.html", "astrohopper_deploy.html",
      "app.js", "lib.js", "missing.js", "bg.png", "ic.png", "no.png",
      "LICENSE", "COPYING.md", "manifest.json", "icons" }

Old(name) == Text(<<"old ", name>>)

BaseFs ==
    [n \in FileNames |->
        CASE n = "Changelog.md" -> GoodChangelog
          [] n = "README.md" -> Text(<<"hello">>)
          [] n = "header.html" -> Text(<<"<header>", "\n">>)
          [] n = "footer.html" -> Text(<<"<footer>", "\n">>)
          [] n = "sw.js" -> Text(<<"const CACHE = '", "VERSION", "';", "\n",
                                   "// ", "VERSION", "\n">>)
          [] n = "astrohopper.html" -> BaseTemplate
          [] n = "app.js" -> Text(<<"f();">>)
          [] n = "lib.js" -> Text(<<"g();", "\n">>)
          [] n = "bg.png" -> Bin(<<137, 80>>)
          [] n = "ic.png" -> Bin(<<137, 80, 78, 71>>)
          [] n \in {"LICENSE", "COPYING.md", "manifest.json"} -> Text(<<n>>)
          [] n = "icons" -> Dir
          [] OTHER -> Absent]

NoDir == [exists |-> FALSE, files |-> [n \in CopyNames |-> Absent], icons |-> Absent]
EmptyDir == [NoDir EXCEPT !.exists = TRUE]
OldDir == [exists |-> TRUE, files |-> [n \in CopyNames |-> Old(n)], icons |-> Dir]

\* (sys.argv[1:], the directory it names)
Targets ==
    { <<<<>>, NoDir>>, <<<<>>, OldDir>>, <<<<"out">>, NoDir>>, <<<<"out">>, EmptyDir>>,
      <<<<"">>, NoDir>> }

Start(files, tg) ==
    /\ pc = "create_db"
    /\ fs = files
    /\ fs0 = files
    /\ ver = None
    /\ man = <<>>
    /\ argv = tg[1]
    /\ tdir = tg[2]
    /\ tdir0 = tg[2]
    /\ calls = <<>>
    /\ attempts = <<>>
    /\ emitted = <<>>
    /\ printed = <<>>

\* Every changelog, with and without earlier outputs lying around.
InitVersion ==
    \E c \in ChangelogFiles, old \in BOOLEAN, tg \in Targets :
        Start([n \in FileNames |->
                 IF n = "Changelog.md" THEN c
                 ELSE IF old /\ n \in {"manual.html", "sw_deploy.js", "astrohopper_deploy.html"}
                 THEN Old(n)
                 ELSE BaseFs[n]], tg)

\* Every combination of missing and unreadable inputs of the later steps.
InitPipeline ==
    \E readme \in {Absent, Bad, BaseFs["README.md"]},
       parts \in {<<TRUE, TRUE>>, <<FALSE, TRUE>>, <<TRUE, FALSE>>},
       sw \in {Absent, Bad, BaseFs["sw.js"]},
       tpl \in {Absent, Bad, BaseTemplate},
       old \in BOOLEAN,
       missing \in SUBSET {"LICENSE", "COPYING.md", "manifest.json", "icons"},
       tg \in Targets :
        Start([n \in FileNames |->
                 CASE n = "README.md" -> readme
                   [] n = "header.html" -> IF parts[1] THEN BaseFs[n] ELSE Absent
                   [] n = "footer.html" -> IF parts[2] THEN BaseFs[n] ELSE Absent
                   [] n = "sw.js" -> sw
                   [] n = "astrohopper.html" -> tpl
                   [] n \in {"manual.html", "sw_deploy.js", "astrohopper_deploy.html"} ->
                        IF old THEN Old(n) ELSE Absent
                   [] n \in missing -> Absent
                   [] OTHER -> BaseFs[n]], tg)

\* Every template, everything else in place.
InitTemplate ==
    \E tpl \in Templates :
        Start([BaseFs EXCEPT !["astrohopper.html"] = tpl], <<<<>>, NoDir>>)

Init == InitVersion \/ InitPipeline \/ InitTemplate

Spec == Init /\ [][Next]_vars

(***************************************************************************)
(* Properties.                                                             *)
(***************************************************************************)
Range(s) == {s[i] : i \in DOMAIN s}
IsPrefix(s, t) == Len(s) <= Len(t) /\ SubSeq(t, 1, Len(s)) = s

AllCalls ==
    <<"create_db", "get_ver", "make_manual", "embed", "embed_service_worker",
      "deploy_files">>

AfterGetVer == pc \notin {"create_db", "get_ver"}
AfterMakeManual == pc \in {"embed", "embed_service_worker", "deploy_files", "returned", "raised"}
AfterEmbed == pc \in {"embed_service_worker", "deploy_files", "returned", "raised"}
Finished == pc \in {"returned_early", "returned", "raised"}

\* embed() got as far as its loop: the template was there and readable.
EmbedRan == AfterEmbed /\ fs0["astrohopper.html"].kind = "text"
TemplateLines == lines_of(fs0["astrohopper.html"].data)
Output == fs["astrohopper_deploy.html"]

\* C1: with Changelog.md missing or unreadable get_ver returns None and
\* main stops there: nothing but create_db and get_ver is ever called, and
\* no file of the working directory and nothing of the target directory is
\* created or changed.
C1_HaltWithoutVersion ==
    fs0["Changelog.md"].kind # "text" =>
        /\ pc \in {"create_db", "get_ver", "if_not_ver", "returned_early"}
        /\ (pc \in {"if_not_ver", "returned_early"} => ver = None)
        /\ \A i \in 1..Len(calls) : calls[i] \in {"create_db", "get_ver"}
        /\ fs = fs0
        /\ tdir = tdir0

C1_Witness ==
    /\ fs0["Changelog.md"].kind = "absent"
    /\ pc = "returned_early"
    /\ calls = <<"create_db", "get_ver">>
    /\ fs["manual.html"] = Absent
    /\ ~tdir.exists

\* deploy_files has been called and has ended, by return or by exception.
DeployEnded == pc \in {"returned", "raised"}

\* What a complete deployment leaves: the target directory exists, the six
\* files and then the icons directory were attempted in list order, every
\* source that is a file is in the target under its own name, a missing
\* source left its place in the target as it was, and icons was copied
\* when it exists and the target had none.
DeployedAll ==
    /\ tdir.exists
    /\ attempts = files_to_copy \o <<"icons">>
    /\ \A n \in CopyNames :
          tdir.files[n] = IF IsFile(fs[n]) THEN fs[n] ELSE tdir0.files[n]
    /\ tdir.icons = IF fs["icons"].kind = "dir" /\ tdir0.icons.kind = "absent"
                    THEN fs["icons"] ELSE tdir0.icons

\* C2 as claimed: for every target, deploy_files creates the directory when
\* it does not exist, attempts all seven copies in order and copies every
\* present source, and is never aborted.
C2_Original ==
    DeployEnded => pc = "returned" /\ DeployedAll

\* C2, amended: when the target directory exists or can be created,
\* deploy_files returns with the directory in place, all seven copies
\* attempted in list order and every present source copied under its own
\* name, whatever subset of the sources is missing.  When the directory
\* does not exist and cannot be created, os.makedirs raises: nothing is
\* created and no copy is attempted.  A missing source never aborts the
\* deployment.
C2_DeployCopiesEveryPresentSource ==
    DeployEnded =>
        IF tdir0.exists \/ target_dir # ""
        THEN pc = "returned" /\ DeployedAll
        ELSE pc = "raised" /\ tdir = tdir0 /\ attempts = <<>>

C2_Witness ==
    /\ pc = "returned"
    /\ ~tdir0.exists
    /\ fs["astrohopper_deploy.html"].kind = "absent"
    /\ fs["LICENSE"].kind = "absent"
    /\ fs["manifest.json"].kind = "text"
    /\ tdir.files["manifest.json"] = fs["manifest.json"]
    /\ tdir.files["LICENSE"] = Absent
    /\ tdir.icons = Dir

\* A line whose script file cannot be read, and a line handled by one of
\* the PNG branches whose PNG file cannot be read.
ScriptFails(line) ==
    LET m == script_pattern(line)
    IN  m.hit /\ Lookup(PathOf(m.g1)).kind # "text"

PngFails(line) ==
    LET u == urlpng_pattern(line)
        u2 == urlpng2_pattern(line)
    IN  /\ ~script_pattern(line).hit
        /\ ~version_pattern(line).hit
        /\ u.hit \/ u2.hit
        /\ Lookup(PathOf((IF u.hit THEN u ELSE u2).g2)).kind # "bin"

\* Processing stopped at line k: lines 1..k-1 were written, nothing else.
StoppedAt(k) ==
    /\ Len(emitted) = k - 1
    /\ \A j \in 1..(k - 1) : emitted[j].line = TemplateLines[j]
    /\ Output = Text(Concat([j \in 1..(k - 1) |-> emitted[j].frag]))
    /\ "Error embedding" \in Range(printed)

\* C3 as claimed: the first line with an error, a missing script file or a
\* missing PNG file, ends the pass.
C3_Original ==
    EmbedRan =>
        \A k \in 1..Len(TemplateLines) :
            ( /\ ScriptFails(TemplateLines[k]) \/ PngFails(TemplateLines[k])
              /\ \A j \in 1..(k - 1) :
                    ~ScriptFails(TemplateLines[j]) /\ ~PngFails(TemplateLines[j]) )
            => StoppedAt(k)

\* C3, amended: the first line whose script file cannot be read ends the
\* pass, with exactly the fragments of the lines before it in the output;
\* a line whose PNG cannot be read does not: it is written, with an empty
\* reference, and the pass goes on; without an unreadable script file
\* every line is written and no embedding error is reported.
C3_ScriptErrorStopsPngErrorDoesNot ==
    EmbedRan =>
        /\ \A k \in 1..Len(TemplateLines) :
              ( /\ ScriptFails(TemplateLines[k])
                /\ \A j \in 1..(k - 1) : ~ScriptFails(TemplateLines[j]) )
              => StoppedAt(k)
        /\ (\A k \in 1..Len(TemplateLines) : ~ScriptFails(TemplateLines[k]))
              => /\ Len(emitted) = Len(TemplateLines)
                 /\ "Error embedding" \notin Range(printed)
        /\ \A j \in 1..Len(emitted) :
              PngFails(emitted[j].line)
              => /\ emitted[j].frag # <<>>
                 /\ DataPrefix \notin Range(emitted[j].frag)
                 /\ "Error encoding PNG" \in Range(printed)

C3_Witness ==
    /\ EmbedRan
    /\ Len(TemplateLines) = 2
    /\ PngFails(TemplateLines[1])
    /\ ScriptFails(TemplateLines[2])
    /\ Len(emitted) = 1
    /\ Output = Text(<<"url(", ")", "\n">>)

\* C4 as claimed: whenever get_ver returned a version (read in the claim's
\* favour: a non-empty one), all four later calls are made in order and
\* none of them raises.
C4_Original ==
    (Finished /\ ver.some /\ ver.val # <<>>) => calls = AllCalls /\ pc = "returned"

\* C4, amended: the calls of main are always made in the one order; once
\* get_ver has returned a non-empty version all four later calls are made,
\* each once; make_manual, embed and embed_service_worker never raise, and
\* a failed make_manual returns '' with embed still run, its MANUAL line
\* writing that empty text; deploy_files, the last call, raises only when
\* the target directory cannot be created.
C4_AllStepsRunOnceInOrder ==
    /\ IsPrefix(calls, AllCalls)
    /\ (Finished /\ ver.some /\ ver.val # <<>>) =>
          /\ calls = AllCalls
          /\ pc = "raised" => ~tdir0.exists /\ target_dir = ""
    /\ (AfterMakeManual /\ "Error creating manual" \in Range(printed)) => man = <<>>
    /\ (AfterEmbed /\ "Error creating manual" \in Range(printed)) =>
          /\ calls[4] = "embed"
          /\ \A j \in 1..Len(emitted) :
                emitted[j].line = <<"MANUAL", "\n">> => emitted[j].frag = <<>>

C4_Witness ==
    /\ pc = "returned"
    /\ calls = AllCalls
    /\ "Error creating manual" \in Range(printed)
    /\ "Error embedding service worker" \in Range(printed)
    /\ \E j \in 1..Len(emitted) : emitted[j].line = <<"MANUAL", "\n">>
    /\ fs0["README.md"].kind = "text"

SwFailed == "Error embedding service worker" \in Range(printed)

\* C5 as claimed: a failed embed_service_worker leaves sw_deploy.js as it was.
C5_Original ==
    SwFailed => fs["sw_deploy.js"] = fs0["sw_deploy.js"]

\* C5, amended: a failed embed_service_worker leaves sw_deploy.js as it
\* was only when sw.js could not be opened; when the failure comes after
\* sw.js was opened, sw_deploy.js has already been created or truncated
\* and is left empty.
C5_FailedStampLeavesOldOrEmpty ==
    SwFailed =>
        fs["sw_deploy.js"] = IF fs0["sw.js"].kind = "absent" THEN fs0["sw_deploy.js"]
                             ELSE Text(<<>>)

C5_Witness ==
    /\ SwFailed
    /\ fs0["sw.js"].kind = "bad"
    /\ fs0["sw_deploy.js"] = Old("sw_deploy.js")
    /\ fs["sw_deploy.js"] = Text(<<>>)

\* The first line of the changelog, stripped, and what follows its last
\* separator.
FirstLine0 == strip(readline(fs0["Changelog.md"].data))
HasSeparator(s) == \E i \in 1..Len(s) : s[i] = Separator
FollowsLastSeparator(s, v) ==
    \E i \in 1..Len(s) :
        /\ s[i] = Separator
        /\ v = SubSeq(s, i + 1, Len(s))
        /\ \A j \in (i + 1)..Len(s) : s[j] # Separator

\* C6 as claimed: the text after the last ': v' of the first line, and the
\* absent value (read in the claim's favour: None or the empty string)
\* when the file is unreadable or the first line has no ': v'.
C6_Original ==
    AfterGetVer =>
        IF fs0["Changelog.md"].kind = "text" /\ HasSeparator(FirstLine0)
        THEN ver.some /\ FollowsLastSeparator(FirstLine0, ver.val)
        ELSE ver = None \/ ver.val = <<>>

\* C6, amended: None exactly when the file cannot be read; otherwise the
\* text after the last ': v' of the stripped first line, and the whole
\* stripped first line when it has no ': v'.
C6_VersionFromFirstLine ==
    AfterGetVer =>
        IF fs0["Changelog.md"].kind # "text" THEN ver = None
        ELSE /\ ver.some
             /\ IF HasSeparator(FirstLine0)
                THEN FollowsLastSeparator(FirstLine0, ver.val)
                ELSE ver.val = FirstLine0

C6_Witness ==
    /\ AfterGetVer
    /\ fs0["Changelog.md"] = Text(<<"Release notes", " ", "2.3.1", "\n">>)
    /\ ver = Some(<<"Release notes", " ", "2.3.1">>)
    /\ pc = "embed"

\* The fragment the contract gives a line: the first classifier that
\* matches, in the order script-include, version marker, PNG in url(),
\* PNG in <img src>, MANUAL marker; the line itself when none matches.
C7_Fragment(line) ==
    LET m == script_pattern(line)
        u == urlpng_pattern(line)
        u2 == urlpng2_pattern(line)
    IN  IF m.hit
        THEN <<"<script>", "\n">> \o Lookup(PathOf(m.g1)).data \o <<"</script>", "\n">>
        ELSE IF version_pattern(line).hit
        THEN replace(line, "version", ver.val)
        ELSE IF u.hit
        THEN u.g1 \o <<"url(">> \o png_encode(PathOf(u.g2)).ret \o <<")">> \o u.g3 \o <<"\n">>
        ELSE IF u2.hit
        THEN u2.g1 \o <<"src=\"">> \o png_encode(PathOf(u2.g2)).ret \o <<"\"">> \o u2.g3
             \o <<"\n">>
        ELSE IF strip(line) = <<"MANUAL">>
        THEN man
        ELSE line

\* C7: when embed completes without error the output is the concatenation,
\* in template order, of one fragment per line, each decided by the first
\* matching classifier in the contract's order; a line no classifier
\* matches is written unchanged.
C7_OneFragmentPerLineInOrder ==
    (EmbedRan /\ "Error embedding" \notin Range(printed)) =>
        /\ Len(emitted) = Len(TemplateLines)
        /\ \A k \in 1..Len(TemplateLines) :
              /\ emitted[k].line = TemplateLines[k]
              /\ emitted[k].frag = C7_Fragment(TemplateLines[k])
        /\ Output = Text(Concat([k \in 1..Len(TemplateLines) |->
                                    C7_Fragment(TemplateLines[k])]))

C7_Witness ==
    /\ EmbedRan
    /\ "Error embedding" \notin Range(printed)
    /\ Len(TemplateLines) = 2
    /\ TemplateLines[1] = Phrase \o Url("bg.png") \o <<"\n">>
    /\ TemplateLines[2] = <<"con", "version">>
    /\ Output = Text(<<"Settings (", "2.3.1", ")">> \o Url("bg.png")
                     \o <<"\n", "con", "version">>)

\* A line that opens with <script src=" and has a "></script> further on,
\* and the place of the last "></script>.
Closers(b) == {j \in 3..(Len(b) - 1) : b[j] = "\"" /\ b[j + 1] = "></script>"}
OpensWithScript(b) ==
    Len(b) >= 4 /\ b[1] = "<script " /\ b[2] = "src=\"" /\ Closers(b) # {}
IsScriptBlock(frag) == frag # <<>> /\ Head(frag) = "<script>"

\* C8 as claimed: only a line that is exactly one script tag is inlined,
\* and its fragment is <script>, newline, the contents, newline,
\* </script>, newline.
C8_Original ==
    EmbedRan =>
        \A k \in 1..Len(emitted) :
            IsScriptBlock(emitted[k].frag) =>
                \E n \in FileNames :
                    /\ body_of(emitted[k].line) = Script(n)
                    /\ emitted[k].frag =
                          <<"<script>", "\n">> \o fs[n].data \o <<"\n", "</script>", "\n">>

\* C8, amended: a line is inlined when it opens with <script src=" and has
\* a "></script> further on; the file named is everything between the
\* opening and the last "></script> of the line, whatever follows that is
\* dropped, and the fragment is <script>, newline, the contents of the
\* file, </script>, newline, with no newline added after the contents.  No
\* other line gives a script block.
C8_ScriptInlinedWithoutAddedNewline ==
    EmbedRan =>
        \A k \in 1..Len(emitted) :
            LET b == body_of(emitted[k].line)
                name == SubSeq(b, 3, Max(Closers(b)) - 1)
            IN  IF OpensWithScript(b)
                THEN /\ Lookup(PathOf(name)).kind = "text"
                     /\ emitted[k].frag =
                           <<"<script>", "\n">> \o Lookup(PathOf(name)).data
                           \o <<"</script>", "\n">>
                ELSE ~IsScriptBlock(emitted[k].frag)

C8_Witness ==
    /\ EmbedRan
    /\ Len(emitted) = 2
    /\ emitted[1].line = Script("app.js") \o <<"x;", "\n">>
    /\ emitted[1].frag = <<"<script>", "\n", "f();", "</script>", "\n">>
    /\ emitted[2].line = <<"x;">>
    /\ emitted[2].frag = emitted[2].line

\* The data URI of the PNG files of the model, as Python computes it.
KnownDataUri(path) ==
    CASE Lookup(path) = Bin(<<137, 80>>) -> <<DataPrefix, "i", "V", "A", "=">>
      [] Lookup(path) = Bin(<<137, 80, 78, 71>>) ->
            <<DataPrefix, "i", "V", "B", "O", "R", "w", "=", "=">>
      [] OTHER -> <<>>

\* A line the PNG-in-url branch handles: no script include, no version
\* marker, and a url(N.png) on it.
UrlLine(line) ==
    /\ ~OpensWithScript(body_of(line))
    /\ ~\E i \in 1..(Len(line) - 2) : SubSeq(line, i, i + 2) = Phrase
    /\ \E i \in 1..Len(body_of(line)) : png_ref(body_of(line), i, "url(", ")")

\* Every url(N.png) of the text replaced by url(<data URI of N.png>).
RECURSIVE AllUrlsReplaced(_)
AllUrlsReplaced(s) ==
    IF s = <<>> THEN <<>>
    ELSE IF Len(s) >= 3 /\ s[1] = "url(" /\ s[2] \in PngTokens /\ s[3] = ")"
    THEN <<"url(">> \o KnownDataUri(s[2]) \o <<")">> \o AllUrlsReplaced(SubSeq(s, 4, Len(s)))
    ELSE <<Head(s)>> \o AllUrlsReplaced(Tail(s))

\* C9 as claimed: the output line is the input line with every url(N.png)
\* replaced by its data URI and everything else as it was.
C9_Original ==
    EmbedRan =>
        \A k \in 1..Len(emitted) :
            UrlLine(emitted[k].line) =>
                emitted[k].frag = AllUrlsReplaced(emitted[k].line)

\* C9, amended: the output line is the input line with its last url(N.png)
\* replaced by url(<data URI>), the data URI being empty when N.png cannot
\* be read; the text before it, earlier references included, and the text
\* after it are kept, and the output line ends in a newline whether or not
\* the input line did.
C9_LastUrlReplaced ==
    EmbedRan =>
        \A k \in 1..Len(emitted) :
            UrlLine(emitted[k].line) =>
                LET b == body_of(emitted[k].line)
                IN  \E i \in 1..Len(b), z \in 1..Len(b) :
                        /\ b[i] = "url(" /\ png_name(b, i + 1, z) /\ b[z + 1] = ")"
                        /\ \A j \in (i + 1)..Len(b) : ~png_ref(b, j, "url(", ")")
                        /\ emitted[k].frag =
                              SubSeq(b, 1, i - 1) \o <<"url(">>
                              \o KnownDataUri(PathOf(SubSeq(b, i + 1, z))) \o <<")">>
                              \o SubSeq(b, z + 2, Len(b)) \o <<"\n">>

C9_Witness ==
    /\ EmbedRan
    /\ Len(emitted) = 1
    /\ emitted[1].line = Url("bg.png") \o <<" ">> \o Url("ic.png")
    /\ emitted[1].frag = Url("bg.png") \o <<" ", "url(", DataPrefix, "i", "V", "B", "O",
                                             "R", "w", "=", "=", ")", "\n">>

\* A line the version branch handles: no script include, the phrase on it.
VersionLine(line) ==
    /\ ~OpensWithScript(body_of(line))
    /\ \E i \in 1..(Len(line) - 2) : SubSeq(line, i, i + 2) = Phrase

\* "version" at place i of the line is a word of its own, not the tail of
\* a longer word.
OwnWord(line, i) == line[i] = "version" /\ ~(i > 1 /\ line[i - 1] \in ClassTokens)

\* C10 as claimed: every occurrence of the word version is replaced by the
\* version string, every other character is kept, and version inside a
\* longer word is not replaced.
C10_Original ==
    EmbedRan =>
        \A k \in 1..Len(emitted) :
            VersionLine(emitted[k].line) =>
                emitted[k].frag =
                    Concat([i \in 1..Len(emitted[k].line) |->
                              IF OwnWord(emitted[k].line, i) THEN ver.val
                              ELSE <<emitted[k].line[i]>>])

\* C10, amended: every occurrence of the character string version on the
\* line, inside a longer word or not, is replaced by the version string,
\* and every other character is kept.
C10_EveryOccurrenceReplaced ==
    EmbedRan =>
        \A k \in 1..Len(emitted) :
            VersionLine(emitted[k].line) =>
                emitted[k].frag =
                    Concat([i \in 1..Len(emitted[k].line) |->
                              IF emitted[k].line[i] = "version" THEN ver.val
                              ELSE <<emitted[k].line[i]>>])

C10_Witness ==
    /\ EmbedRan
    /\ Len(emitted) = 1
    /\ emitted[1].line = <<"x;">> \o Phrase \o <<" ", "con", "version", "\n">>
    /\ emitted[1].frag = <<"x;", "Settings (", "2.3.1", ")", " ", "con", "2.3.1", "\n">>

====
